---- MODULE Spec2Model ----
(***************************************************************************)
(* Model of the device tools of uixt (mcp_tools_device.go) and of the      *)
(* image sniffer DetectAndRenameImageFile.                                 *)
(*                                                                         *)
(* Go strings that the code only compares, extends with a suffix or tests  *)
(* for emptiness are sequences of tokens: "" is <<>>, a file path is       *)
(* <<dir, base, ext, ...>> and base+extension appends one token.           *)
(* The filesystem is a function from the existing paths to the kind of     *)
(* leading bytes (the signature) each file carries.                        *)
(***************************************************************************)
EXTENDS Integers, Sequences, FiniteSets, TLC

VARIABLES
    fs,      \* the local filesystem: existing path -> signature of its bytes
    fs0,     \* the filesystem when the last operation started
    tool,    \* the operation that ran last ("none" before the first)
    args,    \* the input of the last operation
    calls,   \* the calls the last operation made, in order
    result,  \* what the last operation returned
    n        \* the number of operations run so far

vars == <<fs, fs0, tool, args, calls, result, n>>

\* The number of operations one behaviour runs.
MaxCalls == 2

(***************************************************************************)
(* Strings, paths and the filesystem                                       *)
(***************************************************************************)

\* Go's empty string.
EmptyString == <<>>

\* The signatures a file's leading bytes may carry.
Kinds == {"jpeg", "png", "gif", "webp", "bmp", "tiff", "svg", "ico", "text"}

\* The extensions the sniffer can append.
Extensions == {".jpg", ".png", ".gif", ".webp", ".bmp", ".tiff", ".svg"}

\* No extension chosen (the sniffer's default branch fails).
NoExtension == "none"

\* os.Rename(old, new): new is replaced if it exists, old disappears.
Rename(fsys, old, new) ==
    [p \in (DOMAIN fsys \ {old}) \cup {new} |->
        IF p = new THEN fsys[old] ELSE fsys[p]]

\* A file written at path with the given bytes.
WriteFile(fsys, path, kind) ==
    [p \in DOMAIN fsys \cup {path} |-> IF p = path THEN kind ELSE fsys[p]]

\* os.Remove(path): the file disappears unless the removal fails.
Remove(fsys, path, ok) ==
    IF ok /\ path \in DOMAIN fsys
    THEN [p \in DOMAIN fsys \ {path} |-> fsys[p]]
    ELSE fsys

(***************************************************************************)
(* DetectAndRenameImageFile                                                *)
(***************************************************************************)

\* http.DetectContentType on the first 512 bytes, as <<type, subtype>>.
\* The sniffing table of net/http knows JPEG, PNG, GIF, WEBP, BMP and the
\* ICO/CUR signatures among the images; it has no TIFF signature (the bytes
\* fall through to application/octet-stream) and no SVG signature (an SVG
\* document is text/xml, or text/plain without an XML declaration).
DetectContentType(kind) ==
    CASE kind = "jpeg" -> <<"image", "jpeg">>
      [] kind = "png"  -> <<"image", "png">>
      [] kind = "gif"  -> <<"image", "gif">>
      [] kind = "webp" -> <<"image", "webp">>
      [] kind = "bmp"  -> <<"image", "bmp">>
      [] kind = "ico"  -> <<"image", "x-icon">>
      [] kind = "tiff" -> <<"application", "octet-stream">>
      [] kind = "svg"  -> <<"text", "xml; charset=utf-8">>
      [] OTHER         -> <<"text", "plain; charset=utf-8">>

\* strings.Contains(contentType, "image/<subtype>")
ContainsImage(contentType, subtype) ==
    contentType[1] = "image" /\ contentType[2] = subtype

\* The switch on the content type.
ExtensionForContentType(contentType) ==
    CASE ContainsImage(contentType, "jpeg")    -> ".jpg"
      [] ContainsImage(contentType, "png")     -> ".png"
      [] ContainsImage(contentType, "gif")     -> ".gif"
      [] ContainsImage(contentType, "webp")    -> ".webp"
      [] ContainsImage(contentType, "bmp")     -> ".bmp"
      [] ContainsImage(contentType, "tiff")    -> ".tiff"
      [] ContainsImage(contentType, "svg+xml") -> ".svg"
      [] OTHER -> IF contentType[1] = "image" THEN ".jpg" ELSE NoExtension

\* filepath.Join(filepath.Dir(filePath), filepath.Base(filePath)+extension)
NewFilePath(filePath, extension) == Append(filePath, extension)

\* A failed open, read, seek or rename: the empty path and the error.
SniffFailure(fsys, error) ==
    [path |-> EmptyString, err |-> error, fs |-> fsys]

\* A faulty default branch: the path is dropped, as on the other error returns.
NotAnImage_DropsPath(fsys, filePath) ==
    [path |-> EmptyString, err |-> "NotAnImage", fs |-> fsys]

\* The default branch for a content type that is no image.
NotAnImage(fsys, filePath) ==
    [path |-> filePath, err |-> "NotAnImage", fs |-> fsys]

\* The faults the operating system may answer a call of the sniffer with.
Faults == {"none", "open", "read", "seek", "rename"}

\* DetectAndRenameImageFile(filePath): the path returned, the error, and the
\* filesystem it leaves.
DetectAndRenameImageFile(fsys, filePath, fault) ==
    IF filePath \notin DOMAIN fsys \/ fault = "open" THEN SniffFailure(fsys, "open")
    ELSE IF fault = "read" THEN SniffFailure(fsys, "read")
    ELSE IF fault = "seek" THEN SniffFailure(fsys, "seek")
    ELSE
      LET contentType == DetectContentType(fsys[filePath])
          extension   == ExtensionForContentType(contentType)
          newFilePath == NewFilePath(filePath, extension)
      IN  IF extension = NoExtension THEN NotAnImage(fsys, filePath)
          ELSE IF filePath = newFilePath
               THEN [path |-> filePath, err |-> "nil", fs |-> fsys]
          ELSE IF fault = "rename" THEN SniffFailure(fsys, "rename")
          ELSE [path |-> newFilePath, err |-> "nil",
                fs |-> Rename(fsys, filePath, newFilePath)]

(***************************************************************************)
(* Tool arguments: the untyped argument bag and Go's type assertions       *)
(***************************************************************************)

\* An argument that is missing from the bag.
Absent == [ty |-> "absent"]

\* An argument of a type the handler does not expect (a JSON number).
Number == [ty |-> "number"]

Str(s) == [ty |-> "string", v |-> s]

Bool(b) == [ty |-> "bool", v |-> b]

\* x.(string): the value and whether the assertion held.
AssertString(x) ==
    [val |-> IF x.ty = "string" THEN x.v ELSE EmptyString, ok |-> x.ty = "string"]

\* x.(bool)
AssertBool(x) ==
    [val |-> IF x.ty = "bool" THEN x.v ELSE FALSE, ok |-> x.ty = "bool"]

\* One call a handler made: what was called, on which path, and whether it worked.
Call(op, path, ok) == [op |-> op, path |-> path, ok |-> ok]

\* return nil, err
HardError(cs, error, fsys) ==
    [calls |-> cs, fs |-> fsys, result |-> [kind |-> "hard_error", err |-> error]]

\* setupXTDriver(ctx, arguments): platform+serial resolved into a driver, or an error.
SetupXTDriver(setupOk) == Call("setupXTDriver", EmptyString, setupOk)

(***************************************************************************)
(* push_image                                                              *)
(***************************************************************************)

\* The file DownloadFileByUrl writes in the k-th operation: a path of its own.
DownloadNames == <<"dl1", "dl2", "dl3", "dl4">>

DownloadPath(k) == <<"tmp", DownloadNames[k]>>

\* (!hasPath || imagePath == "") && (!hasUrl || imageUrl == "")
ArgumentsMissing(imagePath, imageUrl) ==
    /\ (~imagePath.ok \/ imagePath.val = EmptyString)
    /\ (~imageUrl.ok \/ imageUrl.val = EmptyString)

\* hasUrl && imageUrl != ""
HasUrl(imageUrl) == imageUrl.ok /\ imageUrl.val # EmptyString

\* "If we have a URL, download it": the download, then the sniffer.
DownloadStage(cs, fsys, imagePath, imageUrl, env, k) ==
    IF ~HasUrl(imageUrl)
    THEN [calls |-> cs, fs |-> fsys, imagePath |-> imagePath.val,
          downloadedFile |-> FALSE, failed |-> FALSE]
    ELSE IF ~env.downloadOk
    THEN [calls |-> Append(cs, Call("DownloadFileByUrl", EmptyString, FALSE)),
          fs |-> fsys, imagePath |-> imagePath.val,
          downloadedFile |-> FALSE, failed |-> TRUE]
    ELSE
      LET downloadedPath == DownloadPath(k)
          renamed == DetectAndRenameImageFile(
                         WriteFile(fsys, downloadedPath, env.kind),
                         downloadedPath, env.fault)
      IN  [calls |-> cs \o <<Call("DownloadFileByUrl", downloadedPath, TRUE),
                            Call("DetectAndRenameImageFile", renamed.path,
                                 renamed.err = "nil")>>,
           fs |-> renamed.fs,
           imagePath |-> IF renamed.err # "nil" THEN downloadedPath
                         ELSE renamed.path,
           downloadedFile |-> TRUE, failed |-> FALSE]

\* "Clear images before pushing if requested": a failure is logged, not returned.
ClearBeforeStage(cs, clearBefore, env) ==
    IF clearBefore
    THEN [calls |-> Append(cs, Call("ClearImages", EmptyString, env.clearOk)),
          cleared |-> env.clearOk]
    ELSE [calls |-> cs, cleared |-> FALSE]

\* A faulty test: every downloaded file is removed, asked for or not.
ShouldCleanup_IgnoresFlag(downloadedFile, cleanup) == downloadedFile

\* A faulty test: cleanup removes the pushed file, downloaded or not.
ShouldCleanup_IgnoresOrigin(downloadedFile, cleanup) == cleanup

\* downloadedFile && cleanup
ShouldCleanup(downloadedFile, cleanup) == downloadedFile /\ cleanup

\* The push, the removal of the downloaded file, and the response.
PushStage(cs, fsys, imagePath, imageUrl, downloadedFile, cleanup, cleared, env) ==
    LET pushed  == Append(cs, Call("PushImage", imagePath, env.pushOk))
        remove  == ShouldCleanup(downloadedFile, cleanup)
        removed == env.removeOk /\ imagePath \in DOMAIN fsys
        after   == IF remove
                   THEN Append(pushed, Call("os.Remove", imagePath, removed))
                   ELSE pushed
        fsAfter == IF remove THEN Remove(fsys, imagePath, env.removeOk) ELSE fsys
    IN  IF ~env.pushOk THEN HardError(after, "PushImage", fsAfter)
        ELSE [calls |-> after, fs |-> fsAfter,
              result |-> [kind |-> "success", err |-> "nil",
                          imagePath |-> imagePath,
                          imageUrl |-> IF HasUrl(imageUrl) THEN imageUrl.val
                                       ELSE EmptyString,
                          cleared |-> cleared]]

\* The handler once the driver is set up.
PushImageBody(arguments, env, fsys, k) ==
    LET imagePath   == AssertString(arguments.imagePath)
        imageUrl    == AssertString(arguments.imageUrl)
        cleanup     == AssertBool(arguments.cleanup).val
        clearBefore == AssertBool(arguments.clearBefore).val
        setup       == <<SetupXTDriver(TRUE)>>
    IN  IF ArgumentsMissing(imagePath, imageUrl)
        THEN HardError(setup, "ArgumentError", fsys)
        ELSE
          LET dl == DownloadStage(setup, fsys, imagePath, imageUrl, env, k)
              cl == ClearBeforeStage(dl.calls, clearBefore, env)
          IN  IF dl.failed THEN HardError(dl.calls, "DownloadError", fsys)
              ELSE PushStage(cl.calls, dl.fs, dl.imagePath, imageUrl,
                             dl.downloadedFile, cleanup, cl.cleared, env)

\* A faulty handler: the error of setupXTDriver is not checked.
PushImageImplement_IgnoresSetupError(arguments, env, fsys, k) ==
    LET r == PushImageBody(arguments, env, fsys, k)
    IN  [r EXCEPT !.calls = <<SetupXTDriver(env.setupOk)>> \o Tail(r.calls)]

\* ToolPushImage.Implement
PushImageImplement(arguments, env, fsys, k) ==
    IF ~env.setupOk
    THEN HardError(<<SetupXTDriver(FALSE)>>, "setupXTDriver", fsys)
    ELSE PushImageBody(arguments, env, fsys, k)

(***************************************************************************)
(* select_device, screenrecord, clear_image                                *)
(***************************************************************************)

\* ToolSelectDevice.Implement
SelectDeviceImplement(env, fsys) ==
    IF ~env.setupOk
    THEN HardError(<<SetupXTDriver(FALSE)>>, "setupXTDriver", fsys)
    ELSE [calls |-> <<SetupXTDriver(TRUE), Call("GetDevice", EmptyString, TRUE)>>,
          fs |-> fsys,
          result |-> [kind |-> "success", err |-> "nil"]]

\* NewMCPErrorResponse("Failed to record screen: " + err.Error()), nil
FailureResponse(cs, error, fsys) ==
    [calls |-> cs, fs |-> fsys, result |-> [kind |-> "failure", err |-> error]]

\* method := "adb", or "scrcpy" with ScreenRecordWithScrcpy or ScreenRecordWithAudio
RecordingMethod(arguments) ==
    IF AssertBool(arguments.screenRecordWithScrcpy).val
         \/ AssertBool(arguments.screenRecordWithAudio).val
    THEN "scrcpy" ELSE "adb"

\* ToolScreenRecord.Implement. The duration and path options are only handed
\* to the one ScreenRecord call.
ScreenRecordImplement(arguments, env, fsys) ==
    IF ~env.setupOk
    THEN HardError(<<SetupXTDriver(FALSE)>>, "setupXTDriver", fsys)
    ELSE
      LET cs == <<SetupXTDriver(TRUE),
                  Call("ScreenRecord", EmptyString, env.recordOk)>>
      IN  IF ~env.recordOk THEN FailureResponse(cs, "ScreenRecord", fsys)
          ELSE [calls |-> cs, fs |-> fsys,
                result |-> [kind |-> "success", err |-> "nil",
                            method |-> RecordingMethod(arguments)]]

\* A faulty handler: the error of ClearImages is not checked.
ClearImageImplement_IgnoresError(env, fsys) ==
    IF ~env.setupOk
    THEN HardError(<<SetupXTDriver(FALSE)>>, "setupXTDriver", fsys)
    ELSE [calls |-> <<SetupXTDriver(TRUE),
                      Call("ClearImages", EmptyString, env.clearOk)>>,
          fs |-> fsys,
          result |-> [kind |-> "success", err |-> "nil"]]

\* ToolClearImage.Implement
ClearImageImplement(env, fsys) ==
    IF ~env.setupOk
    THEN HardError(<<SetupXTDriver(FALSE)>>, "setupXTDriver", fsys)
    ELSE
      LET cs == <<SetupXTDriver(TRUE),
                  Call("ClearImages", EmptyString, env.clearOk)>>
      IN  IF ~env.clearOk THEN HardError(cs, "ClearImages", fsys)
          ELSE [calls |-> cs, fs |-> fsys,
                result |-> [kind |-> "success", err |-> "nil"]]

(***************************************************************************)
(* The tools invoked by a caller                                           *)
(***************************************************************************)

\* The caller's own image.
CallerFile == <<"local", "photo", ".png">>

ImageUrl == <<"http://host/", "img">>

\* The signatures a downloaded file may carry.
DownloadKinds == {"png", "text"}

StringArguments(values) == {Absent, Number, Str(EmptyString)} \cup {Str(x) : x \in values}

BoolArguments == {Absent, Bool(TRUE), Bool(FALSE)}

PushArguments ==
    [imagePath   : StringArguments({CallerFile}),
     imageUrl    : StringArguments({ImageUrl}),
     cleanup     : BoolArguments,
     clearBefore : BoolArguments]

\* What the device, the network and the operating system answer when all goes well.
AllWell ==
    [setupOk |-> TRUE, downloadOk |-> TRUE, kind |-> "png", fault |-> "none",
     clearOk |-> TRUE, pushOk |-> TRUE, removeOk |-> TRUE]

\* The answers during one push_image; an answer is drawn only for a call the
\* handler can make with these arguments.
PushEnvironments(a) ==
    LET url == HasUrl(AssertString(a.imageUrl))
    IN  {[AllWell EXCEPT !.setupOk = FALSE]}
          \cup (IF url THEN {[AllWell EXCEPT !.downloadOk = FALSE]} ELSE {})
          \cup [setupOk    : {TRUE},
                downloadOk : {TRUE},
                kind       : IF url THEN DownloadKinds ELSE {"png"},
                fault      : IF url THEN Faults ELSE {"none"},
                clearOk    : IF AssertBool(a.clearBefore).val THEN BOOLEAN ELSE {TRUE},
                pushOk     : BOOLEAN,
                removeOk   : IF url /\ AssertBool(a.cleanup).val THEN BOOLEAN
                             ELSE {TRUE}]

ScreenRecordArguments ==
    [screenRecordWithAudio : BoolArguments, screenRecordWithScrcpy : BoolArguments]

NoArguments == [none |-> TRUE]

Init ==
    /\ fs = [p \in {CallerFile} |-> "png"]
    /\ fs0 = fs
    /\ tool = "none"
    /\ args = NoArguments
    /\ calls = <<>>
    /\ result = [kind |-> "none", err |-> "nil"]
    /\ n = 0

\* One handler ran: its calls, its result and its effect on the filesystem.
Ran(name, arguments, r) ==
    /\ tool' = name
    /\ args' = arguments
    /\ calls' = r.calls
    /\ result' = r.result
    /\ fs' = r.fs
    /\ fs0' = fs
    /\ n' = n + 1

SelectDevice ==
    /\ n < MaxCalls
    /\ \E setupOk \in BOOLEAN :
         Ran("select_device", NoArguments,
             SelectDeviceImplement([setupOk |-> setupOk], fs))

ScreenRecord ==
    /\ n < MaxCalls
    /\ \E a \in ScreenRecordArguments, setupOk \in BOOLEAN, recordOk \in BOOLEAN :
         Ran("screenrecord", a,
             ScreenRecordImplement(a, [setupOk |-> setupOk, recordOk |-> recordOk], fs))

PushImage ==
    /\ n < MaxCalls
    /\ \E a \in PushArguments : \E env \in PushEnvironments(a) :
         Ran("push_image", a, PushImageImplement(a, env, fs, n + 1))

ClearImage ==
    /\ n < MaxCalls
    /\ \E setupOk \in BOOLEAN, clearOk \in BOOLEAN :
         Ran("clear_image", NoArguments,
             ClearImageImplement([setupOk |-> setupOk, clearOk |-> clearOk], fs))

Next == SelectDevice \/ ScreenRecord \/ PushImage \/ ClearImage

Spec == Init /\ [][Next]_vars

(***************************************************************************)
(* ToolPushImage.ConvertActionToCallToolRequest                            *)
(***************************************************************************)

\* arguments[key] = value
Put(arguments, key, value) == [arguments EXCEPT ![key] = value]

\* if v, ok := source[key].(string); ok && v != "" { arguments[key] = v }
PutString(arguments, key, source) ==
    LET x == AssertString(source[key])
    IN  IF x.ok /\ x.val # EmptyString THEN Put(arguments, key, source[key])
        ELSE arguments

\* if v, ok := source[key].(bool); ok { arguments[key] = v }
PutBool(arguments, key, source) ==
    IF AssertBool(source[key]).ok THEN Put(arguments, key, source[key])
    ELSE arguments

\* map[string]any{}
EmptyArguments ==
    [imageUrl |-> Absent, imagePath |-> Absent, cleanup |-> Absent,
     clearBefore |-> Absent]

\* "Handle string param as imageUrl"
FromStringParams(arguments, params) ==
    IF params.shape = "string" /\ params.s # EmptyString
    THEN Put(arguments, "imageUrl", Str(params.s))
    ELSE arguments

\* The four recognized keys of a mapping, in the order the code reads them.
FromMapping(arguments, mapping) ==
    PutBool(PutBool(PutString(PutString(arguments,
        "imageUrl", mapping), "imagePath", mapping),
        "cleanup", mapping), "clearBefore", mapping)

\* "Handle map params with imageUrl or imagePath"
FromMapParams(arguments, params) ==
    IF params.shape = "map" THEN FromMapping(arguments, params.m) ELSE arguments

\* "Handle custom options"
FromCustom(arguments, custom) == FromMapping(arguments, custom)

\* BuildMCPCallToolRequest(name, arguments, action)
BuildMCPCallToolRequest(name, arguments, action) ==
    [name |-> name, arguments |-> arguments]

\* A faulty conversion: the custom options are read before the map params.
ConvertActionToCallToolRequest_CustomFirst(action) ==
    BuildMCPCallToolRequest("push_image",
        FromMapParams(FromCustom(FromStringParams(EmptyArguments,
            action.params), action.custom), action.params), action)

\* ToolPushImage.ConvertActionToCallToolRequest
ConvertActionToCallToolRequest(action) ==
    BuildMCPCallToolRequest("push_image",
        FromCustom(FromMapParams(FromStringParams(EmptyArguments,
            action.params), action.params), action.custom), action)

\* The mappings an action may carry: each recognized key missing, of the wrong
\* type, empty, or one of two values.
OtherUrl == <<"http://host/", "other">>

OtherFile == <<"local", "other", ".png">>

Mappings ==
    [imageUrl    : StringArguments({ImageUrl, OtherUrl}),
     imagePath   : {Absent, Str(CallerFile), Str(OtherFile)},
     cleanup     : BoolArguments \cup {Number},
     clearBefore : BoolArguments]

\* action.Params: a bare string, a mapping, or neither.
ActionParams ==
    {[shape |-> "none"]}
      \cup {[shape |-> "string", s |-> x] : x \in {EmptyString, ImageUrl, OtherUrl}}
      \cup {[shape |-> "map", m |-> x] : x \in Mappings}

Actions == [params : ActionParams, custom : Mappings]

InitConvert ==
    /\ fs = [p \in {CallerFile} |-> "png"]
    /\ fs0 = fs
    /\ tool = "none"
    /\ args \in Actions
    /\ calls = <<>>
    /\ result = [kind |-> "none", err |-> "nil"]
    /\ n = 0

ConvertAction ==
    /\ tool = "none"
    /\ tool' = "convert"
    /\ result' = ConvertActionToCallToolRequest(args)
    /\ UNCHANGED <<fs, fs0, args, calls, n>>

NextConvert == ConvertAction

SpecConvert == InitConvert /\ [][NextConvert]_vars

(***************************************************************************)
(* The sniffer called on a file of the caller                              *)
(***************************************************************************)

\* The names a caller's file may have: no extension, or any of the known ones.
SniffNames ==
    {<<"local", "download">>, <<"local", "download", ".tmp">>}
      \cup {<<"local", "x", e>> : e \in Extensions}

InitSniff ==
    /\ \E p \in SniffNames, k \in Kinds : fs = [q \in {p} |-> k]
    /\ fs0 = fs
    /\ tool = "none"
    /\ args = [filePath |-> EmptyString]
    /\ calls = <<>>
    /\ result = [path |-> EmptyString, err |-> "nil"]
    /\ n = 0

Sniff ==
    /\ n < MaxCalls
    /\ \E p \in DOMAIN fs, fault \in Faults :
         LET r == DetectAndRenameImageFile(fs, p, fault)
         IN  /\ fs' = r.fs
             /\ args' = [filePath |-> p]
             /\ result' = [path |-> r.path, err |-> r.err]
    /\ fs0' = fs
    /\ tool' = "sniff"
    /\ calls' = <<>>
    /\ n' = n + 1

NextSniff == Sniff

SpecSniff == InitSniff /\ [][NextSniff]_vars

\* The sniffer ran last and every system call it made worked.
SniffedLast ==
    /\ tool = "sniff"
    /\ result.err \notin {"open", "read", "seek", "rename"}

\* The last token of the name of the file the sniffer was called on.
LastToken(path) == path[Len(path)]

\* The signatures of images: the seven named ones and any other (here ICO).
ImageSignatures == Kinds \ {"text"}

\* The extension the claims give each signature (any other image: .jpg).
ClaimedExtension(kind) ==
    CASE kind = "jpeg" -> ".jpg"
      [] kind = "png"  -> ".png"
      [] kind = "gif"  -> ".gif"
      [] kind = "webp" -> ".webp"
      [] kind = "bmp"  -> ".bmp"
      [] kind = "tiff" -> ".tiff"
      [] kind = "svg"  -> ".svg"
      [] OTHER         -> ".jpg"

\* C3 (as claimed): with every system call working, a file whose name already ends with the extension implied
\* by its sniffed content comes back under the same path, with no error, and
\* the set of paths on the filesystem is the same before and after the call.
C3_SamePathWhenExtensionMatches ==
    (/\ SniffedLast
     /\ LastToken(args.filePath) =
          ExtensionForContentType(DetectContentType(fs0[args.filePath])))
    => /\ result.path = args.filePath
       /\ result.err = "nil"
       /\ DOMAIN fs = DOMAIN fs0

\* C4 (as claimed): with every system call working, a readable file with a JPEG, PNG, GIF, WEBP, BMP, TIFF or
\* SVG signature (or another image signature) whose name lacks the matching
\* extension is renamed to name+extension; the new path is returned with no
\* error, the old path is gone and the new path exists.
C4_RenamedToMatchingExtension ==
    (/\ SniffedLast
     /\ fs0[args.filePath] \in ImageSignatures
     /\ LastToken(args.filePath) # ClaimedExtension(fs0[args.filePath]))
    => LET new == Append(args.filePath, ClaimedExtension(fs0[args.filePath]))
       IN  /\ result.path = new
           /\ result.err = "nil"
           /\ args.filePath \notin DOMAIN fs
           /\ new \in DOMAIN fs

\* C5: a readable file whose sniffed content type is not image/* comes back
\* under its original path together with the NotAnImage error, and is neither
\* renamed nor deleted: the filesystem is what it was.
C5_NotAnImageKeepsFile ==
    (/\ SniffedLast
     /\ DetectContentType(fs0[args.filePath])[1] # "image")
    => /\ result.path = args.filePath
       /\ result.err = "NotAnImage"
       /\ args.filePath \in DOMAIN fs
       /\ fs = fs0

\* C5's case: plain text was sniffed and refused.
C5_Witness ==
    /\ SniffedLast
    /\ fs0[args.filePath] = "text"
    /\ result.err = "NotAnImage"

(***************************************************************************)
(* Properties of the tool handlers                                         *)
(***************************************************************************)

Tools == {"select_device", "screenrecord", "push_image", "clear_image"}

\* The operations of the device facade; setupXTDriver is the device resolution.
FacadeOps == {"setupXTDriver", "GetDevice", "ScreenRecord", "ClearImages", "PushImage"}

\* The positions in the last handler's calls where op was called.
CallsOf(op) == {i \in 1..Len(calls) : calls[i].op = op}

\* The last operation was a push_image in which no call the handler made
\* failed: the device resolved, the download, the sniffer and the device
\* operations worked.
PushWithoutFailure ==
    /\ tool = "push_image"
    /\ \A i \in 1..Len(calls) : calls[i].ok

\* The last push_image got neither imagePath nor imageUrl.
NeitherSet ==
    /\ PushWithoutFailure
    /\ ArgumentsMissing(AssertString(args.imagePath), AssertString(args.imageUrl))

\* The last push_image got both imagePath and imageUrl, non-empty.
BothSet ==
    /\ PushWithoutFailure
    /\ AssertString(args.imagePath).val # EmptyString
    /\ AssertString(args.imageUrl).val # EmptyString

\* C1 (as claimed): push_image with neither imagePath nor imageUrl set fails
\* with an ArgumentError and has called no facade operation (device
\* resolution, ClearImages, PushImage) when the error is returned. Stated for
\* the invocations in which no call of the handler failed.
C1_NoFacadeCallWhenNeitherSet ==
    NeitherSet =>
        /\ result.kind = "hard_error"
        /\ result.err = "ArgumentError"
        /\ \A i \in 1..Len(calls) : calls[i].op \notin FacadeOps

\* C7 (as claimed): push_image with both imagePath and imageUrl set is
\* rejected with an ArgumentError, with no download, ClearImages or PushImage.
\* Stated for the invocations in which no call of the handler failed.
C7_BothSetRejected ==
    BothSet =>
        /\ result.kind = "hard_error"
        /\ result.err = "ArgumentError"
        /\ \A i \in 1..Len(calls) :
             calls[i].op \notin {"DownloadFileByUrl", "ClearImages", "PushImage"}

\* The last push_image had imageUrl set and its download succeeded.
Downloaded ==
    /\ tool = "push_image"
    /\ \E i \in CallsOf("DownloadFileByUrl") : calls[i].ok

\* The path handed to the facade's PushImage.
PushedPath == calls[CHOOSE i \in CallsOf("PushImage") : TRUE].path

CleanupRequested == AssertBool(args.cleanup).val

\* C2 (as claimed): after a successful download, with cleanup=true the file at
\* the pushed path no longer exists when the handler returns, whether the push
\* failed or succeeded; with cleanup=false it still exists.
C2_DownloadedFileGoneIffCleanup ==
    Downloaded =>
        /\ CallsOf("PushImage") # {}
        /\ CleanupRequested => PushedPath \notin DOMAIN fs
        /\ ~CleanupRequested => PushedPath \in DOMAIN fs

\* C2 (amended): after a successful download, with cleanup=true the handler
\* makes exactly one os.Remove call, after the push and on the pushed path,
\* whether the push failed or succeeded, and the file is gone when the handler
\* returns unless that removal failed; with cleanup=false it makes no os.Remove
\* call and the file still exists.
C2_DownloadedFileRemovedOnceIffCleanup ==
    Downloaded =>
        /\ Cardinality(CallsOf("PushImage")) = 1
        /\ CleanupRequested =>
             /\ CallsOf("os.Remove") = {Len(calls)}
             /\ CallsOf("PushImage") = {Len(calls) - 1}
             /\ calls[Len(calls)].path = PushedPath
             /\ calls[Len(calls)].ok <=> PushedPath \notin DOMAIN fs
        /\ ~CleanupRequested =>
             /\ CallsOf("os.Remove") = {}
             /\ PushedPath \in DOMAIN fs

\* C2's case: the sniffer renamed the download, the push of the renamed file
\* failed, and the cleanup removed it.
C2_Witness ==
    /\ Downloaded
    /\ CleanupRequested
    /\ result.kind = "hard_error"
    /\ result.err = "PushImage"
    /\ Len(PushedPath) = 3
    /\ PushedPath \notin DOMAIN fs

\* A facade call of the last handler failed at position i.
FailedFacadeCall(i) == calls[i].op \in FacadeOps /\ ~calls[i].ok

NoRetry == \A op \in FacadeOps : Cardinality(CallsOf(op)) <= 1

\* C8 (as claimed): no facade operation is called twice in one invocation, and
\* once a facade call fails the handler makes no further facade call and ends
\* with a hard error or a Failure result, never a Success.
C8_FailedFacadeCallEndsInvocation ==
    tool \in Tools =>
        /\ NoRetry
        /\ \A i \in 1..Len(calls) : FailedFacadeCall(i) =>
             /\ \A j \in (i+1)..Len(calls) : calls[j].op \notin FacadeOps
             /\ result.kind \in {"hard_error", "failure"}

\* The ClearImages that push_image makes for clearBefore.
IsClearBefore(i) == tool = "push_image" /\ calls[i].op = "ClearImages"

\* C8 (amended): no facade operation is called twice in one invocation, and
\* once a facade call fails the handler makes no further facade call and ends
\* with a hard error or a Failure result, never a Success; except that a failed
\* ClearImages of push_image's clearBefore is only logged: the handler goes on
\* to its one PushImage call and reports cleared=false if it succeeds.
C8_FailedFacadeCallEndsInvocationButClearBefore ==
    tool \in Tools =>
        /\ NoRetry
        /\ \A i \in 1..Len(calls) : FailedFacadeCall(i) =>
             IF IsClearBefore(i)
             THEN /\ i < Len(calls)
                  /\ calls[i+1].op = "PushImage"
                  /\ \A j \in (i+2)..Len(calls) : calls[j].op \notin FacadeOps
                  /\ calls[i+1].ok <=> result.kind = "success"
                  /\ result.kind = "success" => ~result.cleared
                  /\ result.kind \in {"success", "hard_error"}
             ELSE /\ \A j \in (i+1)..Len(calls) : calls[j].op \notin FacadeOps
                  /\ result.kind \in {"hard_error", "failure"}

\* C8's case: a screen recording failed and surfaced as a Failure result.
C8_Witness ==
    /\ tool = "screenrecord"
    /\ Len(calls) = 2
    /\ FailedFacadeCall(2)
    /\ result.kind = "failure"

\* C9: in every invocation of a device tool the device resolution comes first,
\* before any device operation; if it fails the handler returns a hard error
\* and does nothing else: no device operation, download, rename or deletion.
C9_DeviceResolutionFirst ==
    tool \in Tools =>
        /\ CallsOf("setupXTDriver") = {1}
        /\ ~calls[1].ok =>
             /\ Len(calls) = 1
             /\ result.kind = "hard_error"
             /\ fs = fs0

\* C9's case: a push_image with a URL to download whose device resolution failed.
C9_Witness ==
    /\ tool = "push_image"
    /\ HasUrl(AssertString(args.imageUrl))
    /\ ~calls[1].ok
    /\ result.kind = "hard_error"

\* The paths of the file the last push_image downloaded: where the download
\* wrote it and where the sniffer moved it.
DownloadedPaths ==
    {calls[i].path : i \in CallsOf("DownloadFileByUrl") \cup CallsOf("DetectAndRenameImageFile")}

\* C10: push_image never deletes a file it did not download: every file that
\* existed when the handler started, the caller's imagePath file among them,
\* still exists unchanged when it returns, whatever cleanup and clearBefore are
\* and whether the push fails; an os.Remove call is only ever made on the path
\* of the file downloaded in the same invocation.
C10_OnlyDownloadedFileRemoved ==
    tool = "push_image" =>
        /\ \A p \in DOMAIN fs0 : p \in DOMAIN fs /\ fs[p] = fs0[p]
        /\ \A i \in CallsOf("os.Remove") :
             /\ Downloaded
             /\ calls[i].path \in DownloadedPaths
             /\ calls[i].path \notin DOMAIN fs0

\* C10's case: the caller's own file was pushed with cleanup=true.
C10_Witness ==
    /\ tool = "push_image"
    /\ CleanupRequested
    /\ CallsOf("PushImage") # {}
    /\ PushedPath = CallerFile
    /\ CallerFile \in DOMAIN fs

(***************************************************************************)
(* Properties of the reverse mapping                                       *)
(***************************************************************************)

Fields == {"imageUrl", "imagePath", "cleanup", "clearBefore"}

\* A source carries a value for a field: a non-empty string for imageUrl and
\* imagePath, a boolean for cleanup and clearBefore.
Carries(mapping, f) ==
    IF f \in {"imageUrl", "imagePath"}
    THEN mapping[f].ty = "string" /\ mapping[f].v # EmptyString
    ELSE mapping[f].ty = "bool"

\* The nested mapping of the converted action, if its parameters are one.
NestedCarries(f) == args.params.shape = "map" /\ Carries(args.params.m, f)

\* The bare scalar of the converted action stands for imageUrl.
ScalarCarries(f) ==
    f = "imageUrl" /\ args.params.shape = "string" /\ args.params.s # EmptyString

\* C6: the reverse mapping of push_image follows custom overrides > nested
\* mapping > bare scalar: for each of imageUrl, imagePath, cleanup and
\* clearBefore, a value in the custom overrides is the argument produced,
\* whatever the nested mapping carries; a field only the nested mapping or only
\* the bare scalar carries is taken from there; a field no source carries is
\* not in the arguments.
C6_CustomOverridesNested ==
    tool = "convert" =>
      /\ result.name = "push_image"
      /\ \A f \in Fields :
           LET out == result.arguments[f]
           IN  IF Carries(args.custom, f)
                 THEN out.ty = args.custom[f].ty /\ out.v = args.custom[f].v
               ELSE IF NestedCarries(f)
                 THEN out.ty = args.params.m[f].ty /\ out.v = args.params.m[f].v
               ELSE IF ScalarCarries(f)
                 THEN out.ty = "string" /\ out.v = args.params.s
               ELSE out.ty = "absent"

\* C6's case: the custom overrides and the nested mapping carry different
\* imageUrl values and different cleanup values, and imagePath comes from the
\* nested mapping alone.
C6_Witness ==
    /\ tool = "convert"
    /\ Carries(args.custom, "imageUrl") /\ NestedCarries("imageUrl")
    /\ args.custom.imageUrl.v # args.params.m.imageUrl.v
    /\ Carries(args.custom, "cleanup") /\ NestedCarries("cleanup")
    /\ args.custom.cleanup.v # args.params.m.cleanup.v
    /\ ~Carries(args.custom, "imagePath") /\ NestedCarries("imagePath")
    /\ result.arguments.imageUrl.v = args.custom.imageUrl.v
    /\ result.arguments.imagePath.v = args.params.m.imagePath.v

====
